---- MODULE Spec2Model ----
(***************************************************************************)
(* A model of readability.py (Burr Settles, 2013): the text normalisation  *)
(* pipeline `preprocess`, the letter / word / sentence / syllable counters *)
(* built on it, and the twelve readability formulas.                       *)
(*                                                                         *)
(* A text is a sequence of characters.  A character of a Python 2 byte     *)
(* string, and an ASCII character of a unicode object, is a one-character  *)
(* string.  A character of a unicode object outside ASCII is written as    *)
(* the name of its code point, "U+00E9" for u'\xe9': a text in which one   *)
(* occurs is a unicode object, for which preprocess takes its `isinstance( *)
(* text, unicode)` branch.  The code points of the model are those of      *)
(* CodePoints.  Every re.sub of the source is an operator that scans the   *)
(* text from left to right and replaces the leftmost, greedy,              *)
(* non-overlapping matches, as Python's regex engine does.  Floating point *)
(* results are modelled as exact rationals.                                *)
(***************************************************************************)
EXTENDS Integers, Sequences, FiniteSets, TLC

VARIABLES text, use_proper_nouns, pc, called, result

vars == <<text, use_proper_nouns, pc, called, result>>

----------------------------------------------------------------------------
(* Character classes used by the regular expressions of the source.        *)

LowerLetters == <<"a","b","c","d","e","f","g","h","i","j","k","l","m",
                  "n","o","p","q","r","s","t","u","v","w","x","y","z">>

UpperLetters == <<"A","B","C","D","E","F","G","H","I","J","K","L","M",
                  "N","O","P","Q","R","S","T","U","V","W","X","Y","Z">>

\* [a-z]
LowerClass == {LowerLetters[i] : i \in 1..26}

\* [A-Z]
UpperClass == {UpperLetters[i] : i \in 1..26}

\* [A-Za-z]
LetterClass == LowerClass \cup UpperClass

\* [aeiouy]
VowelClass == {"a", "e", "i", "o", "u", "y"}

\* the vertical tab '\x0b', written as the character itself: TLA+ has no
\* escape for it
VerticalTab == ""

\* \s on a byte string, and the separators of str.split(): space, tab,
\* newline, carriage return, form feed, vertical tab
SpaceClass == {" ", "\t", "\n", "\r", "\f", VerticalTab}

\* [,:;()\-]
PunctClass == {",", ":", ";", "(", ")", "-"}

\* [\.!?]
TerminatorClass == {".", "!", "?"}

\* the tags after whose closing form a full stop is forced
fullStopTags == << <<"l","i">>, <<"p">>, <<"h","1">>, <<"h","2">>, <<"h","3">>,
                   <<"h","4">>, <<"h","5">>, <<"h","6">>, <<"d","d">> >>

----------------------------------------------------------------------------
(* Regex building blocks.                                                  *)

\* the first index j >= i with s[j] not in class (Len(s) + 1 when there is
\* none): where a greedy class* started at i stops
RECURSIVE SkipClass(_, _, _)
SkipClass(s, i, class) ==
    IF i <= Len(s) /\ s[i] \in class THEN SkipClass(s, i + 1, class) ELSE i

\* does the literal pat occur in s at index i
MatchesAt(s, i, pat) ==
    /\ i + Len(pat) - 1 <= Len(s)
    /\ \A k \in 1..Len(pat) : s[i + k - 1] = pat[k]

\* re.sub(literal pat, rep, s) from index i on
RECURSIVE SubLiteralFrom(_, _, _, _)
SubLiteralFrom(s, i, pat, rep) ==
    IF i > Len(s) THEN <<>>
    ELSE IF MatchesAt(s, i, pat)
         THEN rep \o SubLiteralFrom(s, i + Len(pat), pat, rep)
         ELSE <<s[i]>> \o SubLiteralFrom(s, i + 1, pat, rep)

\* a variant of SubClosingTag that removes the closing tag and adds no full stop
SubClosingTagRemoved(s, tag) == SubLiteralFrom(s, 1, <<"<", "/">> \o tag \o <<">">>, <<>>)

\* re.sub(r'</'+tag+'>', '.', text)
SubClosingTag(s, tag) == SubLiteralFrom(s, 1, <<"<", "/">> \o tag \o <<">">>, <<".">>)

\* for tag in fullStopTags: text = re.sub(r'</'+tag+'>', '.', text), from the k-th tag on
RECURSIVE FullStopTagsFrom(_, _)
FullStopTagsFrom(s, k) ==
    IF k > Len(fullStopTags) THEN s
    ELSE FullStopTagsFrom(SubClosingTag(s, fullStopTags[k]), k + 1)

\* the first index j >= i with s[j] = c (Len(s) + 1 when there is none)
RECURSIVE FindChar(_, _, _)
FindChar(s, i, c) ==
    IF i <= Len(s) /\ s[i] # c THEN FindChar(s, i + 1, c) ELSE i

\* re.sub(r'<[^>]+>', '', s) from index i on: a '<', at least one character
\* that is not '>', then the first '>'
RECURSIVE StripHtmlFrom(_, _)
StripHtmlFrom(s, i) ==
    IF i > Len(s) THEN <<>>
    ELSE LET j == FindChar(s, i + 1, ">")
         IN  IF s[i] = "<" /\ j > i + 1 /\ j <= Len(s)
             THEN StripHtmlFrom(s, j + 1)
             ELSE <<s[i]>> \o StripHtmlFrom(s, i + 1)

\* a variant of SubClass that replaces the first match only (re.sub with count=1)
RECURSIVE SubClassOnce(_, _, _)
SubClassOnce(s, class, rep) ==
    IF s = <<>> THEN <<>>
    ELSE IF Head(s) \in class THEN <<rep>> \o Tail(s)
    ELSE <<Head(s)>> \o SubClassOnce(Tail(s), class, rep)

\* re.sub of a one-character class by the one-character string rep
RECURSIVE SubClass(_, _, _)
SubClass(s, class, rep) ==
    IF s = <<>> THEN <<>>
    ELSE <<IF Head(s) \in class THEN rep ELSE Head(s)>> \o SubClass(Tail(s), class, rep)

\* re.sub(r'^\s+', '', s)
StripLeading(s) == SubSeq(s, SkipClass(s, 1, SpaceClass), Len(s))

\* the index after a newline (\n|\r\n|\r) that starts at index i, or i when
\* there is none
NewlineEnd(s, i) ==
    IF i > Len(s) THEN i
    ELSE IF s[i] = "\n" THEN i + 1
    ELSE IF s[i] = "\r" THEN (IF i + 1 <= Len(s) /\ s[i + 1] = "\n" THEN i + 2 ELSE i + 1)
    ELSE i

\* re.sub(r'[ ]*(\n|\r\n|\r)[ ]*', ' ', s) from index i on
RECURSIVE SubNewlinesFrom(_, _)
SubNewlinesFrom(s, i) ==
    IF i > Len(s) THEN <<>>
    ELSE LET j == SkipClass(s, i, {" "})
             e == NewlineEnd(s, j)
         IN  IF e > j
             THEN <<" ">> \o SubNewlinesFrom(s, SkipClass(s, e, {" "}))
             ELSE <<s[i]>> \o SubNewlinesFrom(s, i + 1)

\* re.sub(r'([\.])[\. ]+', '.', s) from index i on
RECURSIVE DedupTerminatorsFrom(_, _)
DedupTerminatorsFrom(s, i) ==
    IF i > Len(s) THEN <<>>
    ELSE LET j == SkipClass(s, i + 1, {".", " "})
         IN  IF s[i] = "." /\ j > i + 1
             THEN <<".">> \o DedupTerminatorsFrom(s, j)
             ELSE <<s[i]>> \o DedupTerminatorsFrom(s, i + 1)

\* re.sub(r'[ ]*([\.])', '. ', s) from index i on
RECURSIVE PadTerminatorsFrom(_, _)
PadTerminatorsFrom(s, i) ==
    IF i > Len(s) THEN <<>>
    ELSE LET j == SkipClass(s, i, {" "})
         IN  IF j <= Len(s) /\ s[j] = "."
             THEN <<".", " ">> \o PadTerminatorsFrom(s, j + 1)
             ELSE <<s[i]>> \o PadTerminatorsFrom(s, i + 1)

\* re.sub(r'\s+', ' ', s) from index i on
RECURSIVE CollapseSpacesFrom(_, _)
CollapseSpacesFrom(s, i) ==
    IF i > Len(s) THEN <<>>
    ELSE IF s[i] \in SpaceClass
         THEN <<" ">> \o CollapseSpacesFrom(s, SkipClass(s, i, SpaceClass))
         ELSE <<s[i]>> \o CollapseSpacesFrom(s, i + 1)

\* the length of s without its trailing run of whitespace
RECURSIVE TrimmedLen(_, _)
TrimmedLen(s, n) == IF n >= 1 /\ s[n] \in SpaceClass THEN TrimmedLen(s, n - 1) ELSE n

\* re.sub(r'\s+$', '', s)
StripTrailing(s) == SubSeq(s, 1, TrimmedLen(s, Len(s)))

\* the first index j >= i with s[j] in class (Len(s) + 1 when there is none):
\* where a greedy [^class]* started at i stops
RECURSIVE SkipNotClass(_, _, _)
SkipNotClass(s, i, class) ==
    IF i <= Len(s) /\ s[i] \notin class THEN SkipNotClass(s, i + 1, class) ELSE i

\* re.sub(r'[^class]', '', s), and re.sub(r'[^class]+', '', s): what is left
\* are the characters of class
RECURSIVE KeepClass(_, _)
KeepClass(s, class) ==
    IF s = <<>> THEN <<>>
    ELSE (IF Head(s) \in class THEN <<Head(s)>> ELSE <<>>) \o KeepClass(Tail(s), class)

\* s.split() from index i on: the maximal runs of non-whitespace characters
RECURSIVE SplitFrom(_, _)
SplitFrom(s, i) ==
    LET b == SkipClass(s, i, SpaceClass)
        e == SkipNotClass(s, b, SpaceClass)
    IN  IF b > Len(s) THEN <<>>
        ELSE <<SubSeq(s, b, e - 1)>> \o SplitFrom(s, e)

split(s) == SplitFrom(s, 1)

\* re.split(r'[^class]+', s) from index i on: the pieces between the maximal
\* runs of characters outside class, the empty pieces at both ends included
RECURSIVE ReSplitNotClassFrom(_, _, _)
ReSplitNotClassFrom(s, i, class) ==
    LET b == SkipClass(s, i, class)
    IN  IF b > Len(s) THEN <<SubSeq(s, i, Len(s))>>
        ELSE <<SubSeq(s, i, b - 1)>> \o ReSplitNotClassFrom(s, SkipNotClass(s, b, class), class)

\* the characters that occur in s
Chars(s) == {s[k] : k \in 1..Len(s)}

\* c.lower() of one character: of a capital A-Z, and of a code point that
\* has a lower-case form (the lower-case form of u'\u0130' and of u'\u212a'
\* is an ASCII letter)
LowerChar(c) ==
    IF c \in UpperClass
    THEN LowerLetters[CHOOSE i \in 1..26 : UpperLetters[i] = c]
    ELSE IF c = "U+00C9" THEN "U+00E9"
    ELSE IF c = "U+0130" THEN "i"
    ELSE IF c = "U+212A" THEN "k"
    ELSE c

\* s.lower()
RECURSIVE lower(_)
lower(s) == IF s = <<>> THEN <<>> ELSE <<LowerChar(Head(s))>> \o lower(Tail(s))

\* word[:1].islower()
FirstIsLower(word) == Len(word) >= 1 /\ word[1] \in LowerClass

\* max(a, b)
max(a, b) == IF a >= b THEN a ELSE b

----------------------------------------------------------------------------
(* The conversion of a unicode object to ASCII.                            *)

\* the code points outside ASCII of the texts: no-break space, E acute,
\* sharp s, e acute, I with dot above, combining acute accent, horizontal
\* ellipsis, euro sign, Kelvin sign, ligature fi
CodePoints == {"U+00A0", "U+00C9", "U+00DF", "U+00E9", "U+0130", "U+0301",
               "U+2026", "U+20AC", "U+212A", "U+FB01"}

\* unicodedata.normalize('NFKD', c).encode('ascii', 'ignore') of one
\* character: the ASCII characters of its compatibility decomposition (the
\* combining marks and whatever else is not ASCII are ignored)
NFKDAscii(c) ==
    IF c = "U+00A0" THEN <<" ">>
    ELSE IF c = "U+00C9" THEN <<"E">>
    ELSE IF c = "U+00DF" THEN <<>>
    ELSE IF c = "U+00E9" THEN <<"e">>
    ELSE IF c = "U+0130" THEN <<"I">>
    ELSE IF c = "U+0301" THEN <<>>
    ELSE IF c = "U+2026" THEN <<".", ".", ".">>
    ELSE IF c = "U+20AC" THEN <<>>
    ELSE IF c = "U+212A" THEN <<"K">>
    ELSE IF c = "U+FB01" THEN <<"f", "i">>
    ELSE <<c>>

\* unicodedata.normalize('NFKD', s).encode('ascii', 'ignore')
RECURSIVE normalize_encode(_)
normalize_encode(s) ==
    IF s = <<>> THEN <<>> ELSE NFKDAscii(Head(s)) \o normalize_encode(Tail(s))

\* isinstance(t, unicode): a code point occurs in t (a unicode object of
\* ASCII characters alone is converted to the byte string of the same
\* characters, which is what it is modelled as)
isinstance_unicode(t) == \E i \in 1..Len(t) : t[i] \in CodePoints

----------------------------------------------------------------------------
(* preprocess: the successive values of the variable text, one per         *)
(* statement; the function returns the last one.                           *)

preprocess(t) ==
    LET t0  == IF isinstance_unicode(t) THEN normalize_encode(t) ELSE t
        t1  == FullStopTagsFrom(t0, 1)
        t2  == StripHtmlFrom(t1, 1)
        t3  == SubClass(t2, PunctClass, " ")
        t4  == SubClass(t3, TerminatorClass, ".")
        t5  == StripLeading(t4)
        t6  == SubNewlinesFrom(t5, 1)
        t7  == DedupTerminatorsFrom(t6, 1)
        t8  == PadTerminatorsFrom(t7, 1)
        t9  == CollapseSpacesFrom(t8, 1)
        t10 == StripTrailing(t9)
    IN  <<t0, t1, t2, t3, t4, t5, t6, t7, t8, t9, t10>>[11]

----------------------------------------------------------------------------
(* Floating point values, modelled as exact rationals in lowest terms with *)
(* a positive denominator.  exc names the exception raised while the value *)
(* was computed ("" when there was none).                                  *)

RECURSIVE Gcd(_, _)
Gcd(a, b) == IF b = 0 THEN a ELSE Gcd(b, a % b)

Abs(a) == IF a < 0 THEN 0 - a ELSE a

\* the rational n / d, d # 0
Rat(n, d) ==
    LET g == Gcd(Abs(n), Abs(d))
        sgn == IF d < 0 THEN 0 - 1 ELSE 1
    IN  [num |-> sgn * (n \div g), den |-> sgn * (d \div g), exc |-> ""]

Raise(e) == [num |-> 0, den |-> 1, exc |-> e]

\* the exception two operands carry, the left one's first
ExcOf(x, y) == IF x.exc # "" THEN x.exc ELSE y.exc

\* an int used in a float expression
Float(n) == Rat(n, 1)

FAdd(x, y) ==
    IF ExcOf(x, y) # "" THEN Raise(ExcOf(x, y))
    ELSE Rat(x.num * y.den + y.num * x.den, x.den * y.den)

FSub(x, y) ==
    IF ExcOf(x, y) # "" THEN Raise(ExcOf(x, y))
    ELSE Rat(x.num * y.den - y.num * x.den, x.den * y.den)

FMul(x, y) ==
    IF ExcOf(x, y) # "" THEN Raise(ExcOf(x, y))
    ELSE Rat(x.num * y.num, x.den * y.den)

\* x / y: division by zero raises ZeroDivisionError
FDiv(x, y) ==
    IF ExcOf(x, y) # "" THEN Raise(ExcOf(x, y))
    ELSE IF y.num = 0 THEN Raise("ZeroDivisionError")
    ELSE Rat(x.num * y.den, x.den * y.num)

\* c * sqrt(x), kept symbolic: math.sqrt of a negative number raises ValueError
FTimesSqrt(c, x) ==
    [times |-> c, sqrt |-> x,
     exc |-> IF ExcOf(c, x) # "" THEN ExcOf(c, x)
             ELSE IF x.num < 0 THEN "ValueError" ELSE ""]

----------------------------------------------------------------------------
(* Counters                                                                *)

letter_count(t) ==
    LET text1 == preprocess(t)
        newText == KeepClass(text1, LetterClass)
    IN  Len(newText)

sentence_count(t) ==
    LET text1 == preprocess(t)
    IN  max(1, Len(KeepClass(text1, TerminatorClass)))

\* a variant of word_count that counts the spaces only
word_count_spaces_only(t) ==
    LET text1 == preprocess(t)
    IN  Len(KeepClass(text1, {" "}))

word_count(t) ==
    LET text1 == preprocess(t)
    IN  1 + Len(KeepClass(text1, {" "}))

avg_words_per_sentence(t) ==
    LET text1 == preprocess(t)
    IN  FDiv(FMul(Float(1), Float(word_count(text1))), Float(sentence_count(text1)))

\* for wb in word_bits: if wb != '': num_bits += 1
RECURSIVE CountBits(_)
CountBits(word_bits) ==
    IF word_bits = <<>> THEN 0
    ELSE (IF Head(word_bits) # <<>> THEN 1 ELSE 0) + CountBits(Tail(word_bits))

\* a variant of syllable_count without the floor at 1
syllable_count_unfloored(word) ==
    LET word1 == lower(word)
        word2 == KeepClass(word1, LowerClass)
        word_bits == ReSplitNotClassFrom(word2, 1, VowelClass)
    IN  CountBits(word_bits)

syllable_count(word) ==
    LET word1 == lower(word)
        word2 == KeepClass(word1, LowerClass)
        word_bits == ReSplitNotClassFrom(word2, 1, VowelClass)
        num_bits == CountBits(word_bits)
    IN  max(1, num_bits)

\* sum([syllable_count(w) for w in words])
RECURSIVE SumSyllables(_)
SumSyllables(words) ==
    IF words = <<>> THEN 0
    ELSE syllable_count(Head(words)) + SumSyllables(Tail(words))

total_syllables(t) ==
    LET text1 == preprocess(t)
        words == split(text1)
    IN  SumSyllables(words)

avg_syllables_per_word(t) ==
    LET text1 == preprocess(t)
        num_words == word_count(text1)
        words == split(text1)
        num_syllables == SumSyllables(words)
    IN  FDiv(FMul(Float(1), Float(num_syllables)), Float(num_words))

\* a variant of CountSixLetterWords that ignores the flag
RECURSIVE CountSixLetterWordsAnyCase(_, _)
CountSixLetterWordsAnyCase(words, use_proper) ==
    IF words = <<>> THEN 0
    ELSE (IF Len(Head(words)) >= 6 THEN 1 ELSE 0)
         + CountSixLetterWordsAnyCase(Tail(words), use_proper)

\* a variant of CountSixLetterWords that measures the letters of a word only
RECURSIVE CountSixLetterWordsLettersOnly(_, _)
CountSixLetterWordsLettersOnly(words, use_proper) ==
    IF words = <<>> THEN 0
    ELSE (IF Len(KeepClass(Head(words), LetterClass)) >= 6
             /\ (use_proper \/ FirstIsLower(Head(words)))
          THEN 1 ELSE 0) + CountSixLetterWordsLettersOnly(Tail(words), use_proper)

\* the loop of six_letter_word_count over words
RECURSIVE CountSixLetterWords(_, _)
CountSixLetterWords(words, use_proper) ==
    IF words = <<>> THEN 0
    ELSE (IF Len(Head(words)) >= 6 /\ (use_proper \/ FirstIsLower(Head(words)))
          THEN 1 ELSE 0) + CountSixLetterWords(Tail(words), use_proper)

six_letter_word_count(t, use_proper) ==
    LET text1 == preprocess(t)
        words == split(text1)
    IN  CountSixLetterWords(words, use_proper)

\* the loop of three_syllable_word_count over words
RECURSIVE CountThreeSyllableWords(_, _)
CountThreeSyllableWords(words, use_proper) ==
    IF words = <<>> THEN 0
    ELSE (IF syllable_count(Head(words)) >= 3 /\ (use_proper \/ FirstIsLower(Head(words)))
          THEN 1 ELSE 0) + CountThreeSyllableWords(Tail(words), use_proper)

three_syllable_word_count(t, use_proper) ==
    LET text1 == preprocess(t)
        words == split(text1)
    IN  CountThreeSyllableWords(words, use_proper)

percent_three_syllable_words(t, use_proper) ==
    LET text1 == preprocess(t)
    IN  FDiv(FMul(Rat(100, 1), Float(three_syllable_word_count(text1, use_proper))),
             Float(word_count(text1)))

----------------------------------------------------------------------------
(* Formulas                                                                *)

flesch_kincaid_ease(t) ==
    LET text1 == preprocess(t)
    IN  FSub(FSub(Rat(206835, 1000), FMul(Rat(1015, 1000), avg_words_per_sentence(text1))),
             FMul(Rat(846, 10), avg_syllables_per_word(text1)))

douma(t) ==
    LET text1 == preprocess(t)
    IN  FSub(FSub(Rat(20684, 100), FMul(Rat(33, 100), avg_words_per_sentence(text1))),
             FMul(Rat(77, 100), avg_syllables_per_word(text1)))

kandel_moles(t) ==
    LET text1 == preprocess(t)
    IN  FSub(FSub(Float(209), FMul(Rat(115, 100), avg_words_per_sentence(text1))),
             FMul(Rat(68, 100), avg_syllables_per_word(text1)))

gulpease(t) ==
    LET text1 == preprocess(t)
    IN  FAdd(Rat(89, 1),
             FDiv(FSub(FMul(Rat(300, 1), Float(sentence_count(text1))),
                       FMul(Rat(10, 1), Float(letter_count(text1)))),
                  Float(word_count(text1))))

fernandez_huerta(t) ==
    LET text1 == preprocess(t)
        factor == FDiv(Rat(100, 1), Float(word_count(text1)))
    IN  FSub(FSub(Rat(20684, 100),
                  FMul(FMul(Rat(6, 10), factor), Float(syllable_count(text1)))),
             FMul(FMul(Rat(102, 100), factor), Float(sentence_count(text1))))

flesch_kincaid_grade(t) ==
    LET text1 == preprocess(t)
    IN  FSub(FAdd(FMul(Rat(39, 100), avg_words_per_sentence(text1)),
                  FMul(Rat(118, 10), avg_syllables_per_word(text1))),
             Rat(1559, 100))

gunning_fog(t) ==
    LET text1 == preprocess(t)
    IN  FMul(Rat(4, 10),
             FAdd(avg_words_per_sentence(text1), percent_three_syllable_words(text1, FALSE)))

coleman_liau(t) ==
    LET text1 == preprocess(t)
    IN  FSub(FSub(FDiv(FMul(Rat(589, 100), Float(letter_count(text1))), Float(word_count(text1))),
                  FDiv(FMul(Rat(3, 10), Float(sentence_count(text1))), Float(word_count(text1)))),
             Rat(158, 10))

smog(t) ==
    LET text1 == preprocess(t)
    IN  FTimesSqrt(Rat(1043, 1000),
                   FAdd(FMul(Float(three_syllable_word_count(text1, TRUE)),
                             FDiv(Rat(30, 1), Float(sentence_count(text1)))),
                        Rat(31291, 10000)))

ari(t) ==
    LET text1 == preprocess(t)
    IN  FSub(FAdd(FDiv(FMul(Rat(471, 100), Float(letter_count(text1))), Float(word_count(text1))),
                  FDiv(FMul(Rat(5, 10), Float(word_count(text1))), Float(sentence_count(text1)))),
             Rat(2143, 100))

lix(t) ==
    LET text1 == preprocess(t)
        num_words == word_count(text1)
    IN  FAdd(FDiv(FMul(Rat(100, 1), Float(six_letter_word_count(text1, TRUE))), Float(num_words)),
             FDiv(FMul(Float(1), Float(num_words)), Float(sentence_count(text1))))

rix(t) ==
    LET text1 == preprocess(t)
    IN  FDiv(FMul(Float(1), Float(six_letter_word_count(text1, TRUE))),
             Float(sentence_count(text1)))

readability_metrics(t) ==
    [flesch_kincaid_ease  |-> flesch_kincaid_ease(t),
     gulpease             |-> gulpease(t),
     douma                |-> douma(t),
     kandel_moles         |-> kandel_moles(t),
     fernandez_huerta     |-> fernandez_huerta(t),
     flesch_kincaid_grade |-> flesch_kincaid_grade(t),
     gunning_fog          |-> gunning_fog(t),
     coleman_liau         |-> coleman_liau(t),
     smog                 |-> smog(t),
     ari                  |-> ari(t),
     lix                  |-> lix(t),
     rix                  |-> rix(t)]

----------------------------------------------------------------------------
(* The state machine: a caller holds a text and calls one function of the  *)
(* module on it; the call returns its result.                              *)

MaxLen == 4

\* a letter, white space (a tab included), a terminator, a separator
Alphabet == {"a", " ", "\t", ".", ","}

\* the characters of tags, and a newline
MarkupAlphabet == {"<", "/", "p", ">", "\n"}

\* the strings over alpha of length at most n
StringsOver(alpha, n) == UNION {[1..k -> alpha] : k \in 0..n}

Start(inputs) ==
    /\ text \in inputs
    /\ use_proper_nouns = TRUE
    /\ pc = "start"
    /\ called = "none"
    /\ result = <<>>

\* a vertical tab, and code points: e acute, no-break space, horizontal
\* ellipsis
UnicodeAlphabet == {VerticalTab, "U+00E9", "U+00A0", "U+2026"}

\* any short text
Init == Start(StringsOver(Alphabet, MaxLen) \cup StringsOver(MarkupAlphabet, MaxLen)
              \cup StringsOver(UnicodeAlphabet, MaxLen))

MaxWordLen == 4

WordAlphabet == {"a", "y", "b", "E", "1", "-"}

\* a consonant, and code points: E acute, I with dot above, Kelvin sign
UnicodeWordAlphabet == {"b", "U+00C9", "U+0130", "U+212A"}

\* a single word: small and capital vowels, a consonant, a digit, a hyphen,
\* or a word of a unicode object
InitWords == Start(StringsOver(WordAlphabet, MaxWordLen)
                   \cup StringsOver(UnicodeWordAlphabet, MaxWordLen))

MaxParagraphs == 2

MaxWords == 3

\* the words of the paragraphs: the name of the tag, and a capitalised word
ParagraphWords == {<<"p">>, <<"H", "i">>}

\* the concatenation of a sequence of texts
RECURSIVE Concat(_)
Concat(texts) == IF texts = <<>> THEN <<>> ELSE Head(texts) \o Concat(Tail(texts))

\* the texts of seq with sep between them
RECURSIVE Join(_, _)
Join(texts, sep) ==
    IF Len(texts) <= 1 THEN Concat(texts)
    ELSE Head(texts) \o sep \o Join(Tail(texts), sep)

\* the non-empty sequences over S of length at most n
SeqsOver(S, n) == UNION {[1..k -> S] : k \in 1..n}

\* <p>w1 w2 ... wn</p>
Paragraph(words) == <<"<", "p", ">">> \o Join(words, <<" ">>) \o <<"<", "/", "p", ">">>

\* the texts of at most MaxParagraphs paragraphs and MaxWords words in all
ParagraphTexts ==
    LET paragraphs == {Paragraph(ws) : ws \in SeqsOver(ParagraphWords, MaxWords)}
        spaces(ps) == Cardinality({i \in 1..Len(Concat(ps)) : Concat(ps)[i] = " "})
    IN  {Concat(ps) : ps \in {qs \in SeqsOver(paragraphs, MaxParagraphs) :
                                   spaces(qs) + Len(qs) <= MaxWords}}

\* an HTML text made of paragraphs
InitParagraphs == Start(ParagraphTexts)

MaxTokens == 2

MinTokenLen == 4

MaxTokenLen == 6

\* a small or a capital letter, then small letters, then an optional terminator
Tokens ==
    {<<first>> \o [i \in 1..(n - 1) |-> "a"] \o last :
        first \in {"a", "B"}, n \in MinTokenLen..MaxTokenLen, last \in {<<>>, <<".">>}}

TokenTexts == {Join(toks, <<" ">>) : toks \in SeqsOver(Tokens, MaxTokens)}

\* a text made of tokens around six characters long
InitTokens == Start(TokenTexts)

\* the call of a one-argument function returns r
Return(name, r) ==
    /\ pc = "start"
    /\ called' = name
    /\ result' = r
    /\ pc' = "done"
    /\ UNCHANGED <<text, use_proper_nouns>>

\* the call of a function with the flag use_proper_nouns returns r
ReturnWith(name, flag, r) ==
    /\ pc = "start"
    /\ called' = name
    /\ use_proper_nouns' = flag
    /\ result' = r
    /\ pc' = "done"
    /\ UNCHANGED text

call_preprocess == Return("preprocess", preprocess(text))

call_letter_count == Return("letter_count", letter_count(text))

call_sentence_count == Return("sentence_count", sentence_count(text))

call_word_count == Return("word_count", word_count(text))

call_avg_words_per_sentence == Return("avg_words_per_sentence", avg_words_per_sentence(text))

call_total_syllables == Return("total_syllables", total_syllables(text))

call_avg_syllables_per_word == Return("avg_syllables_per_word", avg_syllables_per_word(text))

call_syllable_count == Return("syllable_count", syllable_count(text))

call_six_letter_word_count ==
    \E flag \in BOOLEAN :
        ReturnWith("six_letter_word_count", flag, six_letter_word_count(text, flag))

call_three_syllable_word_count ==
    \E flag \in BOOLEAN :
        ReturnWith("three_syllable_word_count", flag, three_syllable_word_count(text, flag))

call_percent_three_syllable_words ==
    \E flag \in BOOLEAN :
        ReturnWith("percent_three_syllable_words", flag, percent_three_syllable_words(text, flag))

call_fernandez_huerta == Return("fernandez_huerta", fernandez_huerta(text))

call_lix == Return("lix", lix(text))

call_rix == Return("rix", rix(text))

call_readability_metrics == Return("readability_metrics", readability_metrics(text))

Next ==
    \/ call_preprocess
    \/ call_letter_count
    \/ call_sentence_count
    \/ call_word_count
    \/ call_avg_words_per_sentence
    \/ call_total_syllables
    \/ call_avg_syllables_per_word
    \/ call_syllable_count
    \/ call_six_letter_word_count
    \/ call_three_syllable_word_count
    \/ call_percent_three_syllable_words
    \/ call_fernandez_huerta
    \/ call_lix
    \/ call_rix
    \/ call_readability_metrics

Spec == Init /\ [][Next]_vars

SpecWords == InitWords /\ [][Next]_vars

SpecParagraphs == InitParagraphs /\ [][Next]_vars

SpecTokens == InitTokens /\ [][Next]_vars

----------------------------------------------------------------------------
(* Properties                                                              *)

\* the number of occurrences of the character c in s
Count(s, c) == Cardinality({i \in 1..Len(s) : s[i] = c})

\* the whitespace-delimited tokens of the canonical text of t
CanonicalTokens(t) == split(preprocess(t))

\* C1: preprocess is idempotent: preprocessing the text that preprocess
\* returned gives that text back.
C1_PreprocessIdempotent ==
    called = "preprocess" => preprocess(result) = result

\* C2: sentence_count and word_count are at least 1 for every text, so no
\* division of the averages, the percentage or the formulas has a zero
\* divisor, and readability_metrics returns its twelve scores.
C2_NoZeroDivisor ==
    /\ called \in {"sentence_count", "word_count"} => result >= 1
    /\ called \in {"avg_words_per_sentence", "avg_syllables_per_word",
                   "percent_three_syllable_words",
                   "fernandez_huerta", "lix", "rix"} => result.exc = ""
    /\ called = "readability_metrics" =>
           /\ Cardinality(DOMAIN result) = 12
           /\ \A name \in DOMAIN result : result[name].exc = ""

\* the empty text gets all its scores
C2_Witness ==
    /\ called = "readability_metrics"
    /\ text = <<>>
    /\ \A name \in DOMAIN result : result[name].exc = ""

NoOuterSpace(y) ==
    y # <<>> => y[1] \notin SpaceClass /\ y[Len(y)] \notin SpaceClass

OnlySingleSpaces(y) ==
    \A i \in 1..Len(y) :
        y[i] \in SpaceClass => y[i] = " " /\ (i < Len(y) => y[i + 1] # " ")

\* no '<', then one or more characters other than '>', then '>'
NoHtmlTag(y) ==
    \A i \in 1..Len(y) : \A j \in (i + 2)..Len(y) :
        ~ (/\ y[i] = "<"
           /\ y[j] = ">"
           /\ \A k \in (i + 1)..(j - 1) : y[k] # ">")

TerminatorsPadded(y) ==
    \A i \in 1..Len(y) :
        y[i] = "." =>
            /\ i > 1 => y[i - 1] # " "
            /\ i < Len(y) => y[i + 1] = " "
            /\ i + 2 <= Len(y) => y[i + 2] # " "

NoRepeatedTerminators(y) ==
    \A i \in 1..Len(y) : \A j \in (i + 1)..Len(y) :
        y[i] = "." /\ y[j] = "." => \E k \in (i + 1)..(j - 1) : y[k] # " "

CanonicalForm(y) ==
    /\ NoOuterSpace(y)
    /\ OnlySingleSpaces(y)
    /\ NoHtmlTag(y)
    /\ TerminatorsPadded(y)
    /\ NoRepeatedTerminators(y)

\* C3: the text that preprocess returns is in canonical form: no outer
\* whitespace, single spaces only, no HTML tag, every '.' not preceded by a
\* space and followed by exactly one space unless it is last, and no two
\* terminators adjacent or separated only by spaces.
C3_PreprocessCanonical ==
    called = "preprocess" => CanonicalForm(result)

\* 206.84 - 0.6 * (100 / W) * Syl - 1.02 * (100 / W) * S
FernandezHuertaOf(W, Syl, S) ==
    FSub(FSub(Rat(20684, 100),
              FMul(FMul(Rat(6, 10), FDiv(Rat(100, 1), Float(W))), Float(Syl))),
         FMul(FMul(Rat(102, 100), FDiv(Rat(100, 1), Float(W))), Float(S)))

\* C4: fernandez_huerta is its formula with Syl the total syllables of the
\* text, W its word count and S its sentence count.
C4_FernandezHuertaTotalSyllables ==
    called = "fernandez_huerta" =>
        result = FernandezHuertaOf(word_count(text), total_syllables(text),
                                   sentence_count(text))

\* C5: avg_syllables_per_word is total_syllables divided by word_count, all
\* three called on the same text.
C5_AvgSyllablesPerWord ==
    called = "avg_syllables_per_word" =>
        result = FDiv(Float(total_syllables(text)), Float(word_count(text)))

\* C6: in a text made of k paragraphs <p>w1 ... wn</p> every closing tag
\* ends a sentence and the opening tags vanish: preprocess returns k
\* sentences that each end in '.', sentence_count is k and word_count is
\* the number of words of all paragraphs.
C6_ParagraphsAreSentences ==
    text \in ParagraphTexts =>
        LET k == Count(text, "/")
            n == Count(text, " ") + k
        IN  /\ called = "preprocess" =>
                /\ Count(result, ".") = k
                /\ result[Len(result)] = "."
                /\ Chars(result) \cap {"<", "/", ">"} = {}
                /\ Len(KeepClass(result, LetterClass)) = Len(KeepClass(text, LetterClass)) - 2 * k
                /\ Len(split(result)) = n
                /\ \A i \in 1..Len(result) : result[i] = "." => i > 1 /\ result[i - 1] \in LetterClass
            /\ called = "sentence_count" => result = k
            /\ called = "word_count" => result = n

\* two paragraphs with three words make two sentences
C6_Witness ==
    /\ called = "sentence_count"
    /\ text \in ParagraphTexts
    /\ Count(text, "/") = 2
    /\ Count(text, " ") = 1
    /\ result = 2

\* w lower-cased, without its characters that are not letters
CleanedWord(w) ==
    SelectSeq([i \in 1..Len(w) |-> LowerChar(w[i])], LAMBDA c : c \in LowerClass)

\* the number of maximal runs of vowels in w
VowelRuns(w) ==
    Cardinality({i \in 1..Len(w) :
        w[i] \in VowelClass /\ (i = 1 \/ w[i - 1] \notin VowelClass)})

\* C7: syllable_count is the number of maximal vowel runs of the word,
\* lower-cased and stripped of what is not a letter, floored at 1.
C7_SyllableCount ==
    called = "syllable_count" =>
        /\ result = max(1, VowelRuns(CleanedWord(text)))
        /\ result >= 1

\* two vowel runs, one capital, in a word with a digit
C7_Witness ==
    /\ called = "syllable_count"
    /\ {"E", "1"} \subseteq Chars(text)
    /\ VowelRuns(CleanedWord(text)) = 2
    /\ result = 2

\* C8: six_letter_word_count with the flag set counts the tokens of the
\* canonical text of at least 6 characters; with the flag unset it counts
\* those among them whose first character is a lower-case letter, so never
\* more.
C8_SixLetterWordCount ==
    called = "six_letter_word_count" =>
        LET toks == CanonicalTokens(text)
            long == {i \in 1..Len(toks) : Len(toks[i]) >= 6}
            lower_long == {i \in long : toks[i][1] \in LowerClass}
        IN  /\ use_proper_nouns => result = Cardinality(long)
            /\ ~ use_proper_nouns => result = Cardinality(lower_long)
            /\ six_letter_word_count(text, FALSE) <= six_letter_word_count(text, TRUE)

\* a long capitalised token and a long lower-case one, counted without the
\* capitalised one
C8_Witness ==
    /\ called = "six_letter_word_count"
    /\ ~ use_proper_nouns
    /\ result = 1
    /\ six_letter_word_count(text, TRUE) = 2

\* C9: preprocess reaches a fixed point after at most two applications, so
\* the counters called on a preprocessed text inside a formula all see the
\* same text: the average syllables per word of a preprocessed text is its
\* total syllables over its word count.
C9_FixedPointAfterTwo ==
    called = "preprocess" =>
        /\ preprocess(preprocess(result)) = preprocess(result)
        /\ avg_syllables_per_word(result) =
               FDiv(Float(total_syllables(result)), Float(word_count(result)))

\* a text that one application does not bring to the fixed point
C9_Witness ==
    /\ called = "preprocess"
    /\ preprocess(result) # result
    /\ preprocess(preprocess(result)) = preprocess(result)

\* exactly five letters
FiveLetters(tok) == Len(tok) = 5 /\ \A i \in 1..5 : tok[i] \in LetterClass

\* exactly five letters and a terminator
FiveLettersAndTerminator(tok) ==
    /\ Len(tok) = 6
    /\ \A i \in 1..5 : tok[i] \in LetterClass
    /\ tok[6] = "."

\* C10: the terminator attached to a token counts towards its length: when
\* every token of the canonical text has exactly five letters, the tokens
\* counted as long words are those that end in a terminator.
C10_TerminatorCountsAsLetter ==
    called = "six_letter_word_count" /\ use_proper_nouns =>
        LET toks == CanonicalTokens(text)
        IN  (\A i \in 1..Len(toks) :
                 FiveLetters(toks[i]) \/ FiveLettersAndTerminator(toks[i]))
            => result = Cardinality({i \in 1..Len(toks) :
                                        FiveLettersAndTerminator(toks[i])})

\* five letters with a terminator and five letters without: one long word
C10_Witness ==
    /\ called = "six_letter_word_count"
    /\ use_proper_nouns
    /\ LET toks == CanonicalTokens(text)
       IN  /\ Len(toks) = 2
           /\ FiveLettersAndTerminator(toks[1])
           /\ FiveLetters(toks[2])
    /\ result = 1

====
